---- MODULE Spec2Model ----
(***************************************************************************)
(* The OIDC verify callback of createOIDCRouter                            *)
(* (plugins/oidc/server/auth/oidcRouter.ts), as a state machine.           *)
(*                                                                         *)
(* Strings that the code takes apart (emails, URLs, domains, pictures) are *)
(* sequences of lexical tokens, so that parseEmail, slugifyDomain,         *)
(* URL.hostname and isBase64Url are computed rather than assumed.          *)
(* Every claim value is such a sequence; Null stands for null/undefined    *)
(* and Empty for the empty string "".                                      *)
(*                                                                         *)
(* One callback is a chain of steps separated by the awaits of the code:   *)
(*   request -> getTeam -> findExact -> findAny -> provision -> done       *)
(* and everything between two awaits is one atomic step.                   *)
(***************************************************************************)
EXTENDS Integers, Sequences, FiniteSets, TLC

\* ------------------------------------------------------------------ bounds
\* Callbacks that may be in flight together (specification SpecSame).
NumCallbacks == 2
\* Largest number of authentication-provider records in the initial store.
MaxProviders == 2

Callbacks == 1..NumCallbacks

\* ------------------------------------------------------ values and samples
Null == <<"<null>">>
Empty == <<>>

\* JS truthiness of a string-or-null value.
Truthy(v) == v # Null /\ v # Empty
\* a ?? b
Coalesce(a, b) == IF a # Null THEN a ELSE b
\* a || b
Or(a, b) == IF Truthy(a) THEN a ELSE b

EmailAcme == <<"u", "@", "acme", ".", "io">>
EmailOther == <<"u", "@", "other", ".", "io">>
EmailNoAt == <<"u">>
DomainAcme == <<"acme", ".", "io">>
DomainOther == <<"other", ".", "io">>
DomainCorp == <<"corp", ".", "net">>

NameP == <<"Ann Profile">>
NameT == <<"Ann Token">>
UserP == <<"ann.p">>
UserT == <<"ann.t">>
UserAlt == <<"ann.alt">>
SubP == <<"sub-p">>
SubT == <<"sub-t">>
IdP == <<"id-p">>

PicHttp == <<"https", "://", "cdn", "/", "a.png">>
PicB64 == <<"data:", "image/png", ";base64,", "iVBORw0KGgo">>
PicData == <<"data:", "text/plain", ",", "hello">>

NoTeam == "none"
T1 == "T1"
T2 == "T2"
NewTeam == "T3"

\* config.id of the plugin, the name of the provider (line 203, "oidc" at 130).
configId == "oidc"

\* env.OIDC_USERNAME_CLAIM, "preferred_username" by default (lines 155-160).
OIDC_USERNAME_CLAIM == "preferred_username"

\* endpoints.authorizationURL
authorizationURL ==
  <<"https", "://", "idp", ".", "example", ".", "com", "/", "authorize">>

\* ------------------------------------------------------------- pure parts
\* Index of the first token of s that is in set ts, 0 when there is none.
FirstIndex(s, ts) ==
  IF \E i \in 1..Len(s) : s[i] \in ts
  THEN CHOOSE i \in 1..Len(s) : s[i] \in ts /\ \A j \in 1..(i - 1) : s[j] \notin ts
  ELSE 0

\* Index of the last token of s that is in set ts, 0 when there is none.
LastIndex(s, ts) ==
  IF \E i \in 1..Len(s) : s[i] \in ts
  THEN CHOOSE i \in 1..Len(s) : s[i] \in ts /\ \A j \in (i + 1)..Len(s) : s[j] \notin ts
  ELSE 0

\* parseEmail(email).domain: the part between the first "@" and the next
\* one; undefined when the email holds no "@".
parseEmailDomain(email) ==
  LET i == FirstIndex(email, {"@"})
      rest == SubSeq(email, i + 1, Len(email))
      j == FirstIndex(rest, {"@"})
  IN IF i = 0 THEN Null
     ELSE IF j = 0 THEN rest ELSE SubSeq(rest, 1, j - 1)

\* slugifyDomain(domain): drop the top-level segment, join the rest by "-".
slugifyDomain(domain) ==
  LET k == LastIndex(domain, {"."})
      kept == SubSeq(domain, 1, k - 1)
  IN [i \in 1..Len(kept) |-> IF kept[i] = "." THEN "-" ELSE kept[i]]

\* new URL(url).hostname: what follows "://" up to the port, path, query or
\* fragment.
Hostname(url) ==
  LET i == FirstIndex(url, {"://"})
      rest == SubSeq(url, i + 1, Len(url))
      j == FirstIndex(rest, {":", "/", "?", "#"})
  IN IF j = 0 THEN rest ELSE SubSeq(rest, 1, j - 1)

\* isBase64Url(url): a data URL whose payload is declared ;base64,
isBase64Url(url) ==
  Len(url) >= 3 /\ url[1] = "data:" /\ url[3] = ";base64,"

\* lodash get(object, path) for a one-key path.
Get(object, claim) ==
  IF claim \in DOMAIN object THEN object[claim] ELSE Null

\* ------------------------------------------------------------------ inputs
EmptyClaims == [email |-> Null, preferred_username |-> Null, sub |-> Null, name |-> Null]

Profiles ==
  [email : {Null, Empty, EmailAcme, EmailNoAt},
   name : {Null, NameP},
   preferred_username : {Null, Empty, UserP},
   username : {Null, UserAlt},
   sub : {Null, SubP},
   id : {Null, IdP},
   picture : {Null, PicHttp, PicB64, PicData}]

\* What JWT.decode does with params.id_token: it throws, or it returns null,
\* a string payload, or the object of claims.
IdTokens ==
  {[decode |-> "throws", type |-> "none", claims |-> EmptyClaims],
   [decode |-> "ok", type |-> "null", claims |-> EmptyClaims],
   [decode |-> "ok", type |-> "string", claims |-> EmptyClaims]}
  \cup
  [decode : {"ok"}, type : {"object"},
   claims : {EmptyClaims,
             [EmptyClaims EXCEPT !.email = EmailOther],
             [EmptyClaims EXCEPT !.preferred_username = UserT],
             [EmptyClaims EXCEPT !.sub = SubT],
             [EmptyClaims EXCEPT !.name = NameT]}]

Inputs == [profile : Profiles, idToken : IdTokens, team : {NoTeam, T1}]

BlankInput ==
  [profile |-> [email |-> Null, name |-> Null, preferred_username |-> Null,
                username |-> Null, sub |-> Null, id |-> Null, picture |-> Null],
   idToken |-> [decode |-> "throws", type |-> "none", claims |-> EmptyClaims],
   team |-> NoTeam]

\* The inputs of the callbacks that are run for one and the same identity.
SameProfile ==
  [email |-> EmailAcme, name |-> NameP, preferred_username |-> Null,
   username |-> Null, sub |-> SubP, id |-> Null, picture |-> Null]

SameInputs ==
  [profile : {SameProfile, [SameProfile EXCEPT !.name = Null]},
   idToken : {[decode |-> "throws", type |-> "none", claims |-> EmptyClaims],
              [decode |-> "ok", type |-> "object",
               claims |-> [EmptyClaims EXCEPT !.email = EmailOther]]},
   team : {NoTeam, T1}]

\* Authentication-provider records the store may hold before the callbacks.
ProviderPool ==
  {[teamId |-> T1, name |-> configId, providerId |-> DomainAcme],
   [teamId |-> T1, name |-> configId, providerId |-> DomainOther],
   [teamId |-> T1, name |-> configId, providerId |-> DomainCorp],
   [teamId |-> T2, name |-> configId, providerId |-> DomainAcme]}

InitialStores == {S \in SUBSET ProviderPool : Cardinality(S) <= MaxProviders}

\* ------------------------------------------------------------------ errors
NoError == [kind |-> "null", about |-> "null"]
ErrRequest == [kind |-> "RequestError", about |-> "userinfo"]
ErrDatabase == [kind |-> "DatabaseError", about |-> "lookup"]
ErrProvisioner == [kind |-> "ProvisionerError", about |-> "provision"]
ErrEmail == [kind |-> "AuthenticationError", about |-> "email"]
ErrName == [kind |-> "AuthenticationError", about |-> "name"]
ErrUserId == [kind |-> "AuthenticationError", about |-> "user id"]
ErrMalformed == [kind |-> "OIDCMalformedUserInfoError", about |-> "domain"]

\* ------------------------------------------------- the callback's own code
\* token: the decoded id_token when it is an object, {} otherwise; a decode
\* that throws is caught and gives {} too.
DecodedToken(idToken) ==
  IF idToken.decode = "throws" THEN EmptyClaims
  ELSE IF idToken.type # "object" THEN EmptyClaims
  ELSE idToken.claims

EmailTokenFirst(profile, token) == Coalesce(Coalesce(token.email, profile.email), Null)

\* const email = profile.email ?? token.email ?? null
Email(profile, token) == Coalesce(Coalesce(profile.email, token.email), Null)

EmailMissingNullOnly(email) == email = Null

\* if (!email)
EmailMissing(email) == ~Truthy(email)

\* const username = get(profile, claim) ?? get(token, claim)
Username(profile, token) ==
  Coalesce(Get(profile, OIDC_USERNAME_CLAIM), Get(token, OIDC_USERNAME_CLAIM))

\* const name = profile.name || username || profile.username
Name(profile, token) ==
  Or(Or(profile.name, Username(profile, token)), profile.username)

ProfileIdSubOnly(profile) == profile.sub

\* const profileId = profile.sub ? profile.sub : profile.id
ProfileId(profile) == IF Truthy(profile.sub) THEN profile.sub ELSE profile.id

AvatarUrlUnfiltered(profile) == profile.picture

\* avatarUrl: profile.picture, null when it is a Base64 data URL
AvatarUrl(profile) ==
  IF Truthy(profile.picture) /\ isBase64Url(profile.picture)
  THEN Null
  ELSE profile.picture

\* The value of authenticationProvider when no record was found (or no team).
NoProvider == [teamId |-> NoTeam, name |-> configId, providerId |-> Null]

\* findOne({ where: { name: "oidc", teamId: team.id, providerId: domain } })
ExactMatches(stored, teamId, domain) ==
  {p \in stored : p.name = "oidc" /\ p.teamId = teamId /\ p.providerId = domain}

AnyMatchesAnyTeam(stored, teamId) == {p \in stored : p.name = "oidc"}

\* findOne({ where: { name: "oidc", teamId: team.id } })
AnyMatches(stored, teamId) ==
  {p \in stored : p.name = "oidc" /\ p.teamId = teamId}

ProviderIdHostnameOnly(authenticationProvider) == Hostname(authorizationURL)

\* const providerId = authenticationProvider?.providerId ?? oidcURL.hostname
ProviderId(authenticationProvider) ==
  Coalesce(authenticationProvider.providerId, Hostname(authorizationURL))

ValidateNoNameCheck(domain, name, profileId) ==
  IF ~Truthy(domain) THEN ErrMalformed
  ELSE IF ~Truthy(profileId) THEN ErrUserId
  ELSE NoError

ValidateDomainAsAuthenticationError(domain, name, profileId) ==
  IF ~Truthy(domain) THEN [kind |-> "AuthenticationError", about |-> "domain"]
  ELSE IF ~Truthy(name) THEN ErrName
  ELSE IF ~Truthy(profileId) THEN ErrUserId
  ELSE NoError

ValidateIdBeforeName(domain, name, profileId) ==
  IF ~Truthy(domain) THEN ErrMalformed
  ELSE IF ~Truthy(profileId) THEN ErrUserId
  ELSE IF ~Truthy(name) THEN ErrName
  ELSE NoError

\* The throws that follow the provider lookup, in the order of the code:
\* !domain, then !name, then !profileId.
Validate(domain, name, profileId) ==
  IF ~Truthy(domain) THEN ErrMalformed
  ELSE IF ~Truthy(name) THEN ErrName
  ELSE IF ~Truthy(profileId) THEN ErrUserId
  ELSE NoError

\* ------------------------------------------------------------------- state
VARIABLES
  providers,   \* stored AuthenticationProvider records
  users,       \* stored user/authentication records
  pc,          \* per callback: the await it is suspended at
  input,       \* per callback: userinfo profile, id_token, tenant context
  team,        \* per callback: the team getTeamFromContext returned
  call,        \* per callback: the arguments handed to accountProvisioner
  outcome,     \* per callback: what done(...) was called with
  hist,        \* per callback: what the callback has done so far
  shared,      \* the input of every callback of SpecSame
  initial      \* the provider records stored before any callback

vars == <<providers, users, pc, input, team, call, outcome, hist, shared, initial>>

NoUser == [teamId |-> NoTeam, providerId |-> Null, sub |-> Null]

NoCall ==
  [teamId |-> NoTeam, domain |-> Null, subdomain |-> Null, name |-> Null,
   email |-> Null, avatarUrl |-> Null, providerName |-> configId,
   providerId |-> Null, sub |-> Null]

NoOutcome == [err |-> NoError, user |-> NoUser, hasResult |-> FALSE]

NoHist ==
  [teamLookup |-> FALSE, lookups |-> 0, invoked |-> FALSE,
   newProviders |-> {}, newUsers |-> {}, after |-> {}]

Profile(c) == input[c].profile
Token(c) == DecodedToken(input[c].idToken)
Domain(c) == parseEmailDomain(Email(Profile(c), Token(c)))

TypeOK ==
  /\ providers \subseteq [teamId : {T1, T2, NewTeam}, name : {configId},
                          providerId : {DomainAcme, DomainOther, DomainCorp, Hostname(authorizationURL)}]
  /\ pc \in [Callbacks -> {"idle", "request", "getTeam", "findExact", "findAny",
                           "provision", "done"}]
  /\ team \in [Callbacks -> {NoTeam, T1}]
  /\ \A c \in Callbacks : hist[c].lookups \in 0..2

InitCommon ==
  /\ initial \in InitialStores
  /\ providers = initial
  /\ users = {}
  /\ pc = [c \in Callbacks |-> "idle"]
  /\ input = [c \in Callbacks |-> BlankInput]
  /\ team = [c \in Callbacks |-> NoTeam]
  /\ call = [c \in Callbacks |-> NoCall]
  /\ outcome = [c \in Callbacks |-> NoOutcome]
  /\ hist = [c \in Callbacks |-> NoHist]

Init == InitCommon /\ shared = BlankInput

InitSame == InitCommon /\ shared \in SameInputs

\* ----------------------------------------------------------------- actions
\* catch (err) { return done(err, null) }
Fail(c, err) ==
  /\ pc' = [pc EXCEPT ![c] = "done"]
  /\ outcome' = [outcome EXCEPT ![c] = [err |-> err, user |-> NoUser, hasResult |-> FALSE]]

\* The strategy invokes the verify callback and the userinfo request starts.
Begin(c) ==
  /\ c = 1
  /\ pc[c] = "idle"
  /\ \E in \in Inputs : input' = [input EXCEPT ![c] = in]
  /\ pc' = [pc EXCEPT ![c] = "request"]
  /\ UNCHANGED <<providers, users, team, call, outcome, hist, shared, initial>>

\* The same, for a callback of the one identity of SpecSame.
BeginSame(c) ==
  /\ pc[c] = "idle"
  /\ input' = [input EXCEPT ![c] = shared]
  /\ pc' = [pc EXCEPT ![c] = "request"]
  /\ hist' = [hist EXCEPT ![c].after = {d \in Callbacks : pc[d] = "done"}]
  /\ UNCHANGED <<providers, users, team, call, outcome, shared, initial>>

\* await request(...) settles; then the id_token is decoded and the email
\* is checked.
RequestSettles(c) ==
  /\ pc[c] = "request"
  /\ \/ Fail(c, ErrRequest)
     \/ IF EmailMissing(Email(Profile(c), Token(c)))
        THEN Fail(c, ErrEmail)
        ELSE /\ pc' = [pc EXCEPT ![c] = "getTeam"]
             /\ UNCHANGED outcome
  /\ UNCHANGED <<providers, users, input, team, call, hist, shared, initial>>

\* Lines 143-213 up to the await of accountProvisioner: providerId, the
\* checks of domain, name and profileId, the avatar, and the call.
Continue(c, teamId, authenticationProvider) ==
  LET profile == Profile(c)
      token == Token(c)
      email == Email(profile, token)
      domain == Domain(c)
      providerId == ProviderId(authenticationProvider)
      name == Name(profile, token)
      profileId == ProfileId(profile)
      err == Validate(domain, name, profileId)
  IN IF err # NoError
     THEN Fail(c, err) /\ UNCHANGED call
     ELSE /\ pc' = [pc EXCEPT ![c] = "provision"]
          /\ call' = [call EXCEPT ![c] =
                        [teamId |-> teamId, domain |-> domain,
                         subdomain |-> slugifyDomain(domain), name |-> name,
                         email |-> email, avatarUrl |-> AvatarUrl(profile),
                         providerName |-> configId, providerId |-> providerId,
                         sub |-> profileId]]
          /\ UNCHANGED outcome

\* await getTeamFromContext(context) settles; without a team no provider is
\* looked up.
GetTeam(c) ==
  /\ pc[c] = "getTeam"
  /\ \/ /\ Fail(c, ErrDatabase)
        /\ hist' = [hist EXCEPT ![c].teamLookup = TRUE]
        /\ UNCHANGED <<team, call>>
     \/ /\ team' = [team EXCEPT ![c] = input[c].team]
        /\ IF input[c].team # NoTeam
           THEN /\ pc' = [pc EXCEPT ![c] = "findExact"]
                /\ hist' = [hist EXCEPT ![c].teamLookup = TRUE]
                /\ UNCHANGED <<call, outcome>>
           ELSE /\ Continue(c, NoTeam, NoProvider)
                /\ hist' = [hist EXCEPT ![c].teamLookup = TRUE,
                                        ![c].invoked = (pc'[c] = "provision")]
  /\ UNCHANGED <<providers, users, input, shared, initial>>

\* The first findOne settles: the provider of the team whose providerId is
\* the email domain.
FindExact(c) ==
  /\ pc[c] = "findExact"
  /\ LET found == ExactMatches(providers, team[c], Domain(c))
     IN \/ /\ Fail(c, ErrDatabase)
           /\ hist' = [hist EXCEPT ![c].lookups = @ + 1]
           /\ UNCHANGED call
        \/ /\ found = {}
           /\ pc' = [pc EXCEPT ![c] = "findAny"]
           /\ hist' = [hist EXCEPT ![c].lookups = @ + 1]
           /\ UNCHANGED <<call, outcome>>
        \/ \E p \in found :
             /\ Continue(c, team[c], p)
             /\ hist' = [hist EXCEPT ![c].lookups = @ + 1,
                                     ![c].invoked = (pc'[c] = "provision")]
  /\ UNCHANGED <<providers, users, input, team, shared, initial>>

\* The second findOne settles: any OIDC provider of the team. The query has
\* no order, so with several records any of them may be returned.
FindAny(c) ==
  /\ pc[c] = "findAny"
  /\ LET found == AnyMatches(providers, team[c])
     IN \/ /\ Fail(c, ErrDatabase)
           /\ hist' = [hist EXCEPT ![c].lookups = @ + 1]
           /\ UNCHANGED call
        \/ /\ found = {}
           /\ Continue(c, team[c], NoProvider)
           /\ hist' = [hist EXCEPT ![c].lookups = @ + 1,
                                   ![c].invoked = (pc'[c] = "provision")]
        \/ \E p \in found :
             /\ Continue(c, team[c], p)
             /\ hist' = [hist EXCEPT ![c].lookups = @ + 1,
                                     ![c].invoked = (pc'[c] = "provision")]
  /\ UNCHANGED <<providers, users, input, team, shared, initial>>

\* accountProvisioner: the team the records go to. A known team is used; a
\* stored provider of the same name and providerId gives its team; otherwise
\* a team is created.
ProvisionedTeam(stored, args) ==
  IF args.teamId # NoTeam THEN args.teamId
  ELSE IF \E p \in stored : p.name = args.providerName /\ p.providerId = args.providerId
  THEN (CHOOSE p \in stored :
          p.name = args.providerName /\ p.providerId = args.providerId).teamId
  ELSE NewTeam

\* accountProvisioner: an atomic upsert of the authentication provider and
\* of the user, idempotent per (providerName, providerId, external subject).
accountProvisioner(stored, storedUsers, args) ==
  LET t == ProvisionedTeam(stored, args)
      prov == [teamId |-> t, name |-> args.providerName, providerId |-> args.providerId]
      user == [teamId |-> t, providerId |-> args.providerId, sub |-> args.sub]
  IN [providers |-> stored \cup {prov}, users |-> storedUsers \cup {user}, user |-> user]

\* await accountProvisioner(...) settles: with the records upserted, and then
\* done(null, result.user, { ...result, client }); or with an error that
\* leaves the store as it was, and then done(err, null).
Provision(c) ==
  /\ pc[c] = "provision"
  /\ \/ /\ Fail(c, ErrProvisioner)
        /\ UNCHANGED <<providers, users, hist>>
     \/ LET result == accountProvisioner(providers, users, call[c])
        IN /\ providers' = result.providers
           /\ users' = result.users
           /\ hist' = [hist EXCEPT ![c].newProviders = result.providers \ providers,
                                   ![c].newUsers = result.users \ users]
           /\ pc' = [pc EXCEPT ![c] = "done"]
           /\ outcome' = [outcome EXCEPT ![c] =
                            [err |-> NoError, user |-> result.user, hasResult |-> TRUE]]
  /\ UNCHANGED <<input, team, call, shared, initial>>

Step(c) ==
  \/ RequestSettles(c)
  \/ GetTeam(c)
  \/ FindExact(c)
  \/ FindAny(c)
  \/ Provision(c)

Next == \E c \in Callbacks : Begin(c) \/ Step(c)

NextSame == \E c \in Callbacks : BeginSame(c) \/ Step(c)

\* One callback, with every input of Inputs and every store of InitialStores.
Spec == Init /\ [][Next]_vars

\* NumCallbacks callbacks for one identity, interleaved at their awaits.
SpecSame == InitSame /\ [][NextSame]_vars

\* ------------------------------------------------------ what is checked
Done(c) == pc[c] = "done"
Failed(c) == Done(c) /\ outcome[c].err # NoError
Succeeded(c) == Done(c) /\ outcome[c].err = NoError
\* The userinfo request has settled with a profile.
Fetched(c) == pc[c] \notin {"idle", "request"} /\ outcome[c].err # ErrRequest

\* The errors the callback throws itself, and those of its collaborators.
OwnErrors == {ErrEmail, ErrName, ErrUserId, ErrMalformed}
CollaboratorErrors == {ErrRequest, ErrDatabase, ErrProvisioner}

\* What the decoded ID token supplies.
Supplied(c) == input[c].idToken.claims

\* The hostname of https://idp.example.com/authorize
IdpHostname == <<"idp", ".", "example", ".", "com">>

\* Some source supplies an email, some source a sub or id, some source a
\* name or username, and the email has a domain. The claim is read in its
\* favour: no claim of the profile is present as an empty string.
SomeSourceSupplies(c) ==
  LET p == Profile(c)
      t == Supplied(c)
  IN /\ p.email # Empty /\ p.preferred_username # Empty
     /\ Truthy(p.email) \/ Truthy(t.email)
     /\ Truthy(p.sub) \/ Truthy(p.id) \/ Truthy(t.sub)
     /\ \/ Truthy(p.name) \/ Truthy(p.preferred_username) \/ Truthy(p.username)
        \/ Truthy(t.name) \/ Truthy(t.preferred_username)
     /\ Truthy(parseEmailDomain(IF Truthy(p.email) THEN p.email ELSE t.email))

\* The sources supply the fields where the code reads them.
CodeSourcesSupply(c) ==
  LET p == Profile(c)
      t == Supplied(c)
      e == IF p.email # Null THEN p.email ELSE t.email
      u == IF p.preferred_username # Null THEN p.preferred_username
           ELSE t.preferred_username
  IN /\ Truthy(e)
     /\ Truthy(parseEmailDomain(e))
     /\ Truthy(p.sub) \/ Truthy(p.id)
     /\ Truthy(p.name) \/ Truthy(u) \/ Truthy(p.username)

\* C1 as stated: whenever some source supplies an email with a domain, some
\* source a sub or id and some source a name or username, the callback does
\* not end in one of its own normalization errors.
C1_Original ==
  \A c \in Callbacks :
    (Fetched(c) /\ SomeSourceSupplies(c) /\ Done(c)) => outcome[c].err \notin OwnErrors

\* C1, amended: when the email (the profile's if present, else the token's) is
\* non-empty and has a domain, the PROFILE supplies sub or id, and the profile
\* supplies name or username or the username claim (profile's if present,
\* else the token's) is non-empty, the callback ends in none of its own
\* normalization errors and hands accountProvisioner a non-empty email,
\* external user id and display name.
C1_NormalizationSucceeds ==
  \A c \in Callbacks :
    (Fetched(c) /\ CodeSourcesSupply(c)) =>
      /\ Done(c) => outcome[c].err \notin OwnErrors
      /\ hist[c].invoked =>
           Truthy(call[c].email) /\ Truthy(call[c].sub) /\ Truthy(call[c].name)
      /\ (pc[c] = "provision" \/ Succeeded(c)) => hist[c].invoked

\* The id comes from profile.id and the name from the token's username
\* claim, and accountProvisioner has been called.
C1_Witness ==
  \E c \in Callbacks :
    /\ pc[c] = "provision"
    /\ Profile(c).sub = Null /\ Profile(c).name = Null
    /\ Profile(c).preferred_username = Null /\ Profile(c).username = Null
    /\ call[c].sub = IdP /\ call[c].name = UserT /\ call[c].email = EmailAcme

SingleOrExactProvider ==
  LET mine == {p \in initial : p.teamId = shared.team /\ p.name = "oidc"}
  IN \/ Cardinality(mine) <= 1
     \/ \E p \in mine : p.providerId = parseEmailDomain(shared.profile.email)

\* Callback d ran after callback c had ended, and both called the provisioner.
RanInSequence(c, d) == c \in hist[d].after /\ hist[c].invoked /\ hist[d].invoked

\* C3 as stated: for every initial set of stored providers, a second run with
\* the same input computes the providerId and subject of the first, and the
\* two runs create at most one user and one provider record.
C3_Original ==
  \A c, d \in Callbacks :
    RanInSequence(c, d) =>
      /\ call[d].providerId = call[c].providerId
      /\ call[d].sub = call[c].sub
      /\ Cardinality(hist[c].newUsers \cup hist[d].newUsers) <= 1
      /\ Cardinality(hist[c].newProviders \cup hist[d].newProviders) <= 1

\* C3, amended: the same, for every initial set of stored providers in which
\* the tenant has at most one OIDC provider or has one whose providerId is
\* the email domain.
C3_RerunIdempotent ==
  SingleOrExactProvider =>
    \A c, d \in Callbacks :
      RanInSequence(c, d) =>
        /\ call[d].providerId = call[c].providerId
        /\ call[d].sub = call[c].sub
        /\ Cardinality(hist[c].newUsers \cup hist[d].newUsers) <= 1
        /\ Cardinality(hist[c].newProviders \cup hist[d].newProviders) <= 1
        /\ Succeeded(d) => hist[d].newUsers = {} \/ Failed(c)

\* The first run created the provider from the hostname for a known team
\* and the second run, begun after it, found it and succeeded.
C3_Witness ==
  \E c, d \in Callbacks :
    /\ RanInSequence(c, d) /\ Succeeded(c) /\ Succeeded(d)
    /\ shared.team = T1
    /\ hist[c].newProviders # {} /\ hist[d].newProviders = {}
    /\ call[d].providerId = IdpHostname

\* C4 as stated: after concurrent callbacks for one identity at most one user
\* record and at most one new provider record exist.
C4_Original ==
  /\ Cardinality(users) <= 1
  /\ Cardinality(providers \ initial) <= 1

\* C4, amended: the same, when the tenant has at most one stored OIDC
\* provider or has one whose providerId is the email domain.
C4_ConcurrentAtMostOne ==
  SingleOrExactProvider =>
    /\ Cardinality(users) <= 1
    /\ Cardinality(providers \ initial) <= 1
    /\ \A c, d \in Callbacks :
         (hist[c].invoked /\ hist[d].invoked) =>
           call[c].providerId = call[d].providerId /\ call[c].sub = call[d].sub

\* Two callbacks that overlapped (neither began after the other ended) have
\* both provisioned successfully.
C4_Witness ==
  \E c, d \in Callbacks :
    /\ c # d /\ Succeeded(c) /\ Succeeded(d)
    /\ c \notin hist[d].after /\ d \notin hist[c].after
    /\ Cardinality(users) = 1 /\ Cardinality(providers \ initial) = 1

\* The providerIds the reference rule of C5 allows.
ReferenceProviderIds(teamId, stored, domain) ==
  LET mine == {p \in stored : p.teamId = teamId /\ p.name = "oidc"}
  IN IF teamId # NoTeam /\ (\E p \in mine : p.providerId = domain) THEN {domain}
     ELSE IF teamId # NoTeam /\ mine # {} THEN {p.providerId : p \in mine}
     ELSE {IdpHostname}

\* C5: the providerId handed to accountProvisioner is the email domain when
\* the known tenant stores an OIDC provider with that id (found by the first
\* lookup alone), else the stored id of an OIDC provider of the known
\* tenant, else the hostname of the authorization endpoint.
C5_ProviderIdRule ==
  \A c \in Callbacks :
    hist[c].invoked =>
      /\ call[c].providerId \in
           ReferenceProviderIds(input[c].team, initial, call[c].domain)
      /\ call[c].providerName = "oidc"
      /\ (\E p \in initial : p.teamId = input[c].team /\ p.providerId = call[c].domain)
           => hist[c].lookups = 1
      /\ input[c].team = NoTeam => hist[c].lookups = 0

\* The fallback: the tenant stores one provider, not of the email domain.
C5_Witness ==
  \E c \in Callbacks :
    /\ hist[c].invoked /\ input[c].team = T1 /\ call[c].domain = DomainAcme
    /\ initial = {[teamId |-> T1, name |-> "oidc", providerId |-> DomainOther]}
    /\ call[c].providerId = DomainOther /\ hist[c].lookups = 2

\* C6: when neither the profile nor the ID token supplies a non-empty
\* email, the callback ends with the email-missing error before the tenant
\* lookup, any provider lookup and the provisioner call.
C6_EmailMissingFirst ==
  \A c \in Callbacks :
    (Fetched(c) /\ ~Truthy(Profile(c).email) /\ ~Truthy(Supplied(c).email)) =>
      /\ Failed(c) /\ outcome[c].err = ErrEmail
      /\ ~hist[c].teamLookup /\ hist[c].lookups = 0 /\ ~hist[c].invoked

\* No email anywhere, every other claim present, a known team.
C6_Witness ==
  \E c \in Callbacks :
    /\ Failed(c) /\ outcome[c].err = ErrEmail
    /\ Profile(c).email = Empty /\ Supplied(c).email = Null
    /\ Profile(c).name = NameP /\ Profile(c).sub = SubP /\ input[c].team = T1

\* C7 as stated: every error passed to done is an authentication failure.
C7_Original ==
  \A c \in Callbacks : Failed(c) => outcome[c].err.kind = "AuthenticationError"

\* C7, amended: every error reaches done(err, null) as it was raised, not
\* wrapped: a missing email, name or user id is an AuthenticationError, an
\* unparseable email domain is an OIDCMalformedUserInfoError, and an error of
\* the userinfo request, a lookup or the provisioner is passed on as it is.
C7_ErrorsPassUnwrapped ==
  \A c \in Callbacks :
    Failed(c) =>
      LET e == outcome[c].err
          p == Profile(c)
          email == IF p.email # Null THEN p.email ELSE Supplied(c).email
      IN \/ e \in CollaboratorErrors
         \/ /\ ~Truthy(email)
            /\ e.kind = "AuthenticationError" /\ e.about = "email"
         \/ /\ Truthy(email) /\ ~Truthy(parseEmailDomain(email))
            /\ e.kind = "OIDCMalformedUserInfoError"
         \/ /\ Truthy(email) /\ Truthy(parseEmailDomain(email))
            /\ e.kind = "AuthenticationError" /\ e.about \in {"name", "user id"}

\* The unparseable-domain case has ended the callback.
C7_Witness ==
  \E c \in Callbacks :
    /\ Failed(c) /\ outcome[c].err.kind = "OIDCMalformedUserInfoError"
    /\ Profile(c).email = EmailNoAt

\* C8: a Base64 data URL picture reaches accountProvisioner as null and does
\* not make the callback fail; any other picture is passed on unchanged.
C8_Base64AvatarDropped ==
  \A c \in Callbacks :
    /\ hist[c].invoked =>
         call[c].avatarUrl =
           (IF Profile(c).picture = PicB64 THEN Null ELSE Profile(c).picture)
    /\ (Fetched(c) /\ CodeSourcesSupply(c) /\ Profile(c).picture = PicB64 /\ Done(c))
         => outcome[c].err \notin OwnErrors

\* A Base64 picture was dropped and the provisioner succeeded.
C8_Witness ==
  \E c \in Callbacks :
    /\ Succeeded(c) /\ Profile(c).picture = PicB64 /\ call[c].avatarUrl = Null

\* The profile alone supplies email (with a domain), user id and name.
ProfileAloneSupplies(c) ==
  LET p == Profile(c)
  IN /\ Truthy(p.email) /\ Truthy(parseEmailDomain(p.email))
     /\ Truthy(p.sub) \/ Truthy(p.id)
     /\ Truthy(p.name)

\* C9: decoding the ID token never ends the callback. With an id_token whose
\* decoding throws or yields no object the call is computed from the profile
\* alone, and when the profile alone supplies email, user id and name the
\* provisioner call is the same whatever the id_token is.
C9_TokenDecodeBestEffort ==
  \A c \in Callbacks :
    LET p == Profile(c)
    IN /\ (Fetched(c) /\ ProfileAloneSupplies(c)) =>
            /\ Done(c) => outcome[c].err \notin OwnErrors
            /\ hist[c].invoked =>
                 /\ call[c].email = p.email
                 /\ call[c].name = p.name
                 /\ call[c].sub = (IF Truthy(p.sub) THEN p.sub ELSE p.id)
                 /\ call[c].domain = parseEmailDomain(p.email)
                 /\ call[c].teamId = input[c].team
       /\ (input[c].idToken.type # "object" /\ hist[c].invoked) =>
            /\ call[c].email = p.email
            /\ call[c].name \in {p.name, p.preferred_username, p.username}
       /\ (Fetched(c) /\ input[c].idToken.type # "object" /\ Failed(c)
             /\ outcome[c].err \in OwnErrors) => ~CodeSourcesSupply(c)

\* A decode that throws, a complete profile, and the provisioner is called.
C9_Witness ==
  \E c \in Callbacks :
    /\ pc[c] = "provision" /\ input[c].idToken.decode = "throws"
    /\ ProfileAloneSupplies(c)

====
